---- MODULE Spec2Model ----
(***************************************************************************)
(* Focal: the escalation engine (focusStore.ts, useEscalation.ts) and the  *)
(* message generation it awaits (gemini.ts, promptTemplates.ts).           *)
(*                                                                         *)
(* Time is Date.now() in milliseconds.  setInterval fires checkEscalation  *)
(* once at every instant of the clock while a session is active.  Spec and *)
(* SpecSession advance the clock by the smallest threshold, SpecLadder and *)
(* SpecLive by the escalation poll interval.                               *)
(***************************************************************************)
EXTENDS Integers, Sequences, FiniteSets, TLC

\* ---------------------------------------------------------------- bounds
MaxTime == 36000            \* Spec, SpecLadder: the clock stops at Epoch + MaxTime
MaxSessionTime == 51000     \* SpecSession: the clock stops at Epoch + MaxSessionTime
MaxVerdicts == 2            \* Spec: verdicts delivered by the classifier in one run
MaxSessionVerdicts == 3     \* SpecSession, SpecTrace: verdicts delivered in one run
MaxSessions == 2            \* startSession calls in one run
MaxTraceTime == 37000       \* SpecTrace: the clock stops at Epoch + MaxTraceTime
MaxDeliveries == 2          \* results the vision oracle delivers in one run
MaxEpisodeVerdicts == 4     \* SpecEpisodes: verdicts delivered in one run
MaxEpisodeTime == 36000     \* SpecEpisodes: the clock stops at Epoch + MaxEpisodeTime
MaxDeterrentVerdicts == 2   \* SpecDeterrent: verdicts delivered in one run
MaxDeterrentTime == 61000   \* SpecDeterrent: the clock stops at Epoch + MaxDeterrentTime

\* ------------------------------------------------------ program constants
LEVEL_1_DELAY == 5000
LEVEL_2_DELAY == 10000
LEVEL_3_DELAY == 15000
RESET_FOCUS_TIME == 30000
ESCALATION_CHECK_INTERVAL == 500
MAX_ESCALATION_LEVEL == 3

\* Date.now() at the first instant of a run; Date.now() is never 0
Epoch == 1000

\* null of a `number | null` field
Null == -1

\* JavaScript truthiness of a `number | null` value: null and 0 are falsy
Truthy(t) == t # Null /\ t # 0

Min(a, b) == IF a <= b THEN a ELSE b

FocusStates == {"focused", "distracted", "idle", "unknown"}

\* reasons the classifier attaches to a verdict
Reasons == {"No face detected in frame"}

\* ------------------------------------------------------------- messages
\* A string is a sequence of characters: "q" a double quote, "s" white
\* space, "a" any other character.
\* A message is its text and the fallback pool it was drawn from (0 when
\* it is no fallback); null is NoMessage.
NoMessage == [pool |-> -1, text |-> <<>>]

\* FALLBACK_MESSAGES: the pools of level 1, 2 and 3.  Every literal of a
\* pool is a non-empty string; the literals of one pool are not told apart.
FALLBACK_MESSAGES == [l \in 1..3 |-> {[pool |-> l, text |-> <<"a">>]}]

\* getRandomFallbackMessage: FALLBACK_MESSAGES[level] || FALLBACK_MESSAGES[1],
\* then any element of the pool
getRandomFallbackMessage(level) ==
    IF level \in DOMAIN FALLBACK_MESSAGES
    THEN FALLBACK_MESSAGES[level] ELSE FALLBACK_MESSAGES[1]

IsSpace(c) == c = "s"

RECURSIVE TrimStart(_)
TrimStart(t) == IF t # <<>> /\ IsSpace(Head(t)) THEN TrimStart(Tail(t)) ELSE t

RECURSIVE TrimEnd(_)
TrimEnd(t) ==
    IF t # <<>> /\ IsSpace(t[Len(t)]) THEN TrimEnd(SubSeq(t, 1, Len(t) - 1)) ELSE t

\* String.prototype.trim
Trim(t) == TrimEnd(TrimStart(t))

\* String.prototype.slice(1, -1)
Slice1(t) == SubSeq(t, 2, Len(t) - 1)

\* what model.generateContent can do: throw, or return a text
ServiceTexts ==
    { <<>>, <<"s">>, <<"q">>, <<"q", "q">>, <<"a">>,
      <<"q", "a", "q">>, <<"s", "a", "s">> }

ServiceOutcomes ==
    {[throws |-> TRUE, text |-> <<>>]} \cup
    {[throws |-> FALSE, text |-> t] : t \in ServiceTexts}

\* generateInterventionMessage after `await model.generateContent` settled
\* with outcome o: the set of strings it can resolve to
generateAfterAwait(level, o) ==
    IF o.throws \/ o.text = <<>> \/ Len(Trim(o.text)) = 0
    THEN getRandomFallbackMessage(level)
    ELSE LET cleaned == Trim(o.text)
         IN  IF Head(cleaned) = "q" /\ cleaned[Len(cleaned)] = "q"
             THEN {[pool |-> 0, text |-> Slice1(cleaned)]}
             ELSE {[pool |-> 0, text |-> cleaned]}

\* ---------------------------------------------------------------- store
initialSessionStats ==
    [startTime |-> 0, totalFocusedTime |-> 0,
     totalDistractedTime |-> 0, distractionCount |-> 0]

InitialStore ==
    [focusState |-> "unknown",
     focusReason |-> "Session not started",
     isSessionActive |-> FALSE,
     sessionStats |-> initialSessionStats,
     escalationLevel |-> 0,
     distractionStartTime |-> Null,
     lastEscalationTime |-> Null,
     lastInterventionTime |-> Null,
     focusedSinceReset |-> Null,
     pendingMessage |-> NoMessage]

\* a plausible slip: the timers endSession leaves alone are not cleared here
startSessionKeepsTimers(s, t) ==
    [s EXCEPT !.isSessionActive = TRUE,
              !.focusState = "unknown",
              !.focusReason = "Detecting focus...",
              !.sessionStats = [initialSessionStats EXCEPT !.startTime = t],
              !.escalationLevel = 0,
              !.distractionStartTime = Null,
              !.lastInterventionTime = Null,
              !.pendingMessage = NoMessage]

startSession(s, t) ==
    [s EXCEPT !.isSessionActive = TRUE,
              !.focusState = "unknown",
              !.focusReason = "Detecting focus...",
              !.sessionStats = [initialSessionStats EXCEPT !.startTime = t],
              !.escalationLevel = 0,
              !.distractionStartTime = Null,
              !.lastEscalationTime = Null,
              !.lastInterventionTime = Null,
              !.focusedSinceReset = Null,
              !.pendingMessage = NoMessage]

\* a plausible slip: the message on display survives the end of the session
endSessionKeepsMessage(s) ==
    [s EXCEPT !.isSessionActive = FALSE,
              !.focusState = "unknown",
              !.focusReason = "Session ended",
              !.escalationLevel = 0,
              !.distractionStartTime = Null]

endSession(s) ==
    [s EXCEPT !.isSessionActive = FALSE,
              !.focusState = "unknown",
              !.focusReason = "Session ended",
              !.escalationLevel = 0,
              !.distractionStartTime = Null,
              !.pendingMessage = NoMessage]

\* a plausible slip: every Focused verdict restarts the focus timer
updateFocusStateRestarting(s, newState, reason, t) ==
    LET prevState == s.focusState
        timeSinceLastUpdate ==
            IF Truthy(s.distractionStartTime) THEN t - s.distractionStartTime ELSE 0
        updatedStats ==
            IF s.isSessionActive /\ prevState = "distracted" /\ timeSinceLastUpdate > 0
            THEN [s.sessionStats EXCEPT
                    !.totalDistractedTime = @ + timeSinceLastUpdate]
            ELSE s.sessionStats
    IN  IF newState = "distracted" /\ prevState # "distracted"
        THEN [s EXCEPT !.focusState = newState,
                       !.focusReason = reason,
                       !.sessionStats =
                           [updatedStats EXCEPT !.distractionCount = @ + 1],
                       !.distractionStartTime = t,
                       !.focusedSinceReset = Null]
        ELSE IF newState = "focused"
        THEN [s EXCEPT !.focusState = newState,
                       !.focusReason = reason,
                       !.sessionStats = updatedStats,
                       !.focusedSinceReset = t]
        ELSE [s EXCEPT !.focusState = newState,
                       !.focusReason = reason]

\* a plausible slip: every Distracted verdict starts a new episode
updateFocusStateRecounting(s, newState, reason, t) ==
    LET prevState == s.focusState
        timeSinceLastUpdate ==
            IF Truthy(s.distractionStartTime) THEN t - s.distractionStartTime ELSE 0
        updatedStats ==
            IF s.isSessionActive /\ prevState = "distracted" /\ timeSinceLastUpdate > 0
            THEN [s.sessionStats EXCEPT
                    !.totalDistractedTime = @ + timeSinceLastUpdate]
            ELSE s.sessionStats
    IN  IF newState = "distracted"
        THEN [s EXCEPT !.focusState = newState,
                       !.focusReason = reason,
                       !.sessionStats =
                           [updatedStats EXCEPT !.distractionCount = @ + 1],
                       !.distractionStartTime = t,
                       !.focusedSinceReset = Null]
        ELSE IF newState = "focused" /\ prevState # "focused"
        THEN [s EXCEPT !.focusState = newState,
                       !.focusReason = reason,
                       !.sessionStats = updatedStats,
                       !.focusedSinceReset =
                           IF s.focusedSinceReset # Null
                           THEN s.focusedSinceReset ELSE t]
        ELSE [s EXCEPT !.focusState = newState,
                       !.focusReason = reason]

\* a plausible slip: only a distraction that ends a Focused state is counted
updateFocusStateCountingReturns(s, newState, reason, t) ==
    LET prevState == s.focusState
        timeSinceLastUpdate ==
            IF Truthy(s.distractionStartTime) THEN t - s.distractionStartTime ELSE 0
        updatedStats ==
            IF s.isSessionActive /\ prevState # "unknown"
               /\ prevState # "focused"
               /\ prevState = "distracted" /\ timeSinceLastUpdate > 0
            THEN [s.sessionStats EXCEPT
                    !.totalDistractedTime = @ + timeSinceLastUpdate]
            ELSE s.sessionStats
    IN  IF newState = "distracted" /\ prevState # "distracted"
        THEN [s EXCEPT !.focusState = newState,
                       !.focusReason = reason,
                       !.sessionStats =
                           IF prevState = "focused"
                           THEN [updatedStats EXCEPT !.distractionCount = @ + 1]
                           ELSE updatedStats,
                       !.distractionStartTime = t,
                       !.focusedSinceReset = Null]
        ELSE IF newState = "focused" /\ prevState # "focused"
        THEN [s EXCEPT !.focusState = newState,
                       !.focusReason = reason,
                       !.sessionStats = updatedStats,
                       !.focusedSinceReset =
                           IF s.focusedSinceReset # Null
                           THEN s.focusedSinceReset ELSE t]
        ELSE [s EXCEPT !.focusState = newState,
                       !.focusReason = reason]

updateFocusState(s, newState, reason, t) ==
    LET prevState == s.focusState
        timeSinceLastUpdate ==
            IF Truthy(s.distractionStartTime) THEN t - s.distractionStartTime ELSE 0
        updatedStats ==
            IF s.isSessionActive /\ prevState # "unknown"
               /\ prevState # "focused"
               /\ prevState = "distracted" /\ timeSinceLastUpdate > 0
            THEN [s.sessionStats EXCEPT
                    !.totalDistractedTime = @ + timeSinceLastUpdate]
            ELSE s.sessionStats
    IN  IF newState = "distracted" /\ prevState # "distracted"
        THEN [s EXCEPT !.focusState = newState,
                       !.focusReason = reason,
                       !.sessionStats =
                           [updatedStats EXCEPT !.distractionCount = @ + 1],
                       !.distractionStartTime = t,
                       !.focusedSinceReset = Null]
        ELSE IF newState = "focused" /\ prevState # "focused"
        THEN [s EXCEPT !.focusState = newState,
                       !.focusReason = reason,
                       !.sessionStats = updatedStats,
                       !.focusedSinceReset =
                           IF s.focusedSinceReset # Null
                           THEN s.focusedSinceReset ELSE t]
        ELSE [s EXCEPT !.focusState = newState,
                       !.focusReason = reason]

\* a plausible slip: escalate goes to the level of the ultimate deterrent
escalateToMax(s, t) ==
    [s EXCEPT !.escalationLevel = MAX_ESCALATION_LEVEL,
              !.lastEscalationTime = t,
              !.lastInterventionTime = t]

\* a plausible slip: the level is not capped
escalateUncapped(s, t) ==
    [s EXCEPT !.escalationLevel = s.escalationLevel + 1,
              !.lastEscalationTime = t,
              !.lastInterventionTime = t]

\* a plausible slip: the escalation leaves the escalation timer alone
escalateKeepsEscalationTime(s, t) ==
    [s EXCEPT !.escalationLevel = Min(s.escalationLevel + 1, 3),
              !.lastInterventionTime = t]

escalate(s, t) ==
    [s EXCEPT !.escalationLevel = Min(s.escalationLevel + 1, 3),
              !.lastEscalationTime = t,
              !.lastInterventionTime = t]

\* a plausible slip: the escalation timer survives the reset
resetEscalationKeepsTimer(s) ==
    [s EXCEPT !.escalationLevel = 0,
              !.distractionStartTime = Null,
              !.focusedSinceReset = Null,
              !.pendingMessage = NoMessage]

resetEscalation(s) ==
    [s EXCEPT !.escalationLevel = 0,
              !.distractionStartTime = Null,
              !.lastEscalationTime = Null,
              !.focusedSinceReset = Null,
              !.pendingMessage = NoMessage]

setPendingMessage(s, message) == [s EXCEPT !.pendingMessage = message]

\* a plausible slip: dismissal also clears the ladder, as handleDismiss does
dismissInterventionResets(s, t) ==
    [s EXCEPT !.pendingMessage = NoMessage,
              !.lastInterventionTime = t,
              !.escalationLevel = 0]

\* a plausible slip: lastEscalationTime written for lastInterventionTime
dismissInterventionRestartsTimer(s, t) ==
    [s EXCEPT !.pendingMessage = NoMessage,
              !.lastEscalationTime = t]

dismissIntervention(s, t) ==
    [s EXCEPT !.pendingMessage = NoMessage,
              !.lastInterventionTime = t]

\* ------------------------------------------------------ useEscalation.ts
\* a plausible slip: thresholds compared with > instead of >=
determineEscalationLevelStrict(currentLevel, distractionDuration, timeSinceLastEscalation) ==
    IF currentLevel = 0 /\ distractionDuration > LEVEL_1_DELAY
    THEN [shouldEscalate |-> TRUE, newLevel |-> 1]
    ELSE IF currentLevel = 1 /\ timeSinceLastEscalation > LEVEL_2_DELAY
    THEN [shouldEscalate |-> TRUE, newLevel |-> 2]
    ELSE IF currentLevel = 2 /\ timeSinceLastEscalation > LEVEL_3_DELAY
    THEN [shouldEscalate |-> TRUE, newLevel |-> MAX_ESCALATION_LEVEL]
    ELSE [shouldEscalate |-> FALSE, newLevel |-> currentLevel]

determineEscalationLevel(currentLevel, distractionDuration, timeSinceLastEscalation) ==
    IF currentLevel = 0 /\ distractionDuration >= LEVEL_1_DELAY
    THEN [shouldEscalate |-> TRUE, newLevel |-> 1]
    ELSE IF currentLevel = 1 /\ timeSinceLastEscalation >= LEVEL_2_DELAY
    THEN [shouldEscalate |-> TRUE, newLevel |-> 2]
    ELSE IF currentLevel = 2 /\ timeSinceLastEscalation >= LEVEL_3_DELAY
    THEN [shouldEscalate |-> TRUE, newLevel |-> MAX_ESCALATION_LEVEL]
    ELSE [shouldEscalate |-> FALSE, newLevel |-> currentLevel]

\* a plausible slip: the reentrancy lock is not consulted
checkEscalationEntersUnlocked(active, generating) == active

\* checkEscalation, first line: if (!isSessionActive || isGeneratingRef.current) return
checkEscalationEnters(active, generating) == active /\ ~generating

\* ---------------------------------------------------- focusClassifier.ts
\* A confidence is a number of [0, 1] held in units of 1 / Scale; every
\* product and quotient below is exact on the values the model uses.
Scale == 3600

Frac(n, d) == (Scale * n) \div d

Times(c, n, d) == (c * n) \div d

Abs(x) == IF x < 0 THEN -x ELSE x

\* THRESHOLDS
YAW_DISTRACTED == 25

PITCH_DISTRACTED == 20

MIN_CONFIDENCE == Frac(5, 10)

\* null of headPose, of overshootAnalysis and of a landmark array
NoPose == [present |-> FALSE]

NoAnalysis == [state |-> "none"]

\* `AI: ${reason}`
AIReason(oa) == <<"AI: ", oa.reason>>

\* a plausible slip: the idle verdict carries the detection confidence
NoFaceResultLocalConfidence(input) ==
    LET overshootAnalysis == input.overshootAnalysis
    IN  IF /\ overshootAnalysis # NoAnalysis
           /\ overshootAnalysis.confidence > Frac(8, 10)
           /\ overshootAnalysis.state = "focused"
        THEN [state |-> "focused",
              confidence |-> Times(overshootAnalysis.confidence, 7, 10),
              reason |-> AIReason(overshootAnalysis)]
        ELSE [state |-> "idle",
              confidence |-> input.confidence,
              reason |-> <<"No face detected in frame">>]

\* lines 58-72: no face detected
NoFaceResult(input) ==
    LET overshootAnalysis == input.overshootAnalysis
    IN  IF /\ overshootAnalysis # NoAnalysis
           /\ overshootAnalysis.confidence > Frac(8, 10)
           /\ overshootAnalysis.state = "focused"
        THEN [state |-> "focused",
              confidence |-> Times(overshootAnalysis.confidence, 7, 10),
              reason |-> AIReason(overshootAnalysis)]
        ELSE [state |-> "idle",
              confidence |-> Frac(1, 1),
              reason |-> <<"No face detected in frame">>]

\* lines 75-89: low confidence detection
LowConfidenceResult(input) ==
    LET overshootAnalysis == input.overshootAnalysis
    IN  IF /\ overshootAnalysis # NoAnalysis
           /\ overshootAnalysis.confidence > Frac(7, 10)
        THEN [state |-> overshootAnalysis.state,
              confidence |-> Times(overshootAnalysis.confidence, 8, 10),
              reason |-> AIReason(overshootAnalysis)]
        ELSE [state |-> "unknown",
              confidence |-> input.confidence,
              reason |-> <<"Face detection confidence too low">>]

\* lines 92-106: no head pose data available
NoHeadPoseResult(input) ==
    LET overshootAnalysis == input.overshootAnalysis
    IN  IF overshootAnalysis # NoAnalysis
        THEN [state |-> overshootAnalysis.state,
              confidence |-> Times(overshootAnalysis.confidence, 9, 10),
              reason |-> AIReason(overshootAnalysis)]
        ELSE [state |-> "unknown",
              confidence |-> Frac(5, 10),
              reason |-> <<"Head pose estimation unavailable">>]

\* a plausible slip: the sides of the yaw are exchanged
MediapipeDetectionMirrored(input) ==
    LET yaw == input.headPose.yaw
        pitch == input.headPose.pitch
        absYaw == Abs(yaw)
        absPitch == Abs(pitch)
    IN  IF absYaw > YAW_DISTRACTED
        THEN [state |-> "distracted",
              confidence |-> Min(Frac(1, 1), Frac(absYaw, 45)),
              reason |-> <<"Looking ", IF yaw > 0 THEN "left" ELSE "right",
                           " (", ToString(absYaw), "deg)">>]
        ELSE IF absPitch > PITCH_DISTRACTED
        THEN [state |-> "distracted",
              confidence |-> Min(Frac(1, 1), Frac(absPitch, 40)),
              reason |-> <<"Looking ", IF pitch > 0 THEN "down" ELSE "up",
                           " (", ToString(absPitch), "deg)">>]
        ELSE IF ~input.eyesOpen
        THEN [state |-> "distracted",
              confidence |-> Frac(6, 10),
              reason |-> <<"Eyes appear closed">>]
        ELSE [state |-> "focused",
              confidence |-> input.confidence,
              reason |-> <<"Looking at screen">>]

\* a plausible slip: the confidence of a pose is not capped at 1
MediapipeDetectionUncapped(input) ==
    LET yaw == input.headPose.yaw
        pitch == input.headPose.pitch
        absYaw == Abs(yaw)
        absPitch == Abs(pitch)
    IN  IF absYaw > YAW_DISTRACTED
        THEN [state |-> "distracted",
              confidence |-> Frac(absYaw, 45),
              reason |-> <<"Looking ", IF yaw > 0 THEN "right" ELSE "left",
                           " (", ToString(absYaw), "deg)">>]
        ELSE IF absPitch > PITCH_DISTRACTED
        THEN [state |-> "distracted",
              confidence |-> Frac(absPitch, 40),
              reason |-> <<"Looking ", IF pitch > 0 THEN "down" ELSE "up",
                           " (", ToString(absPitch), "deg)">>]
        ELSE IF ~input.eyesOpen
        THEN [state |-> "distracted",
              confidence |-> Frac(6, 10),
              reason |-> <<"Eyes appear closed">>]
        ELSE [state |-> "focused",
              confidence |-> input.confidence,
              reason |-> <<"Looking at screen">>]

\* lines 108-130: MediaPipe's detection.  Math.round is applied to a whole
\* number of degrees; "deg)" stands for the degree sign and the bracket.
MediapipeDetection(input) ==
    LET yaw == input.headPose.yaw
        pitch == input.headPose.pitch
        absYaw == Abs(yaw)
        absPitch == Abs(pitch)
    IN  IF absYaw > YAW_DISTRACTED
        THEN [state |-> "distracted",
              confidence |-> Min(Frac(1, 1), Frac(absYaw, 45)),
              reason |-> <<"Looking ", IF yaw > 0 THEN "right" ELSE "left",
                           " (", ToString(absYaw), "deg)">>]
        ELSE IF absPitch > PITCH_DISTRACTED
        THEN [state |-> "distracted",
              confidence |-> Min(Frac(1, 1), Frac(absPitch, 40)),
              reason |-> <<"Looking ", IF pitch > 0 THEN "down" ELSE "up",
                           " (", ToString(absPitch), "deg)">>]
        ELSE IF ~input.eyesOpen
        THEN [state |-> "distracted",
              confidence |-> Frac(6, 10),
              reason |-> <<"Eyes appear closed">>]
        ELSE [state |-> "focused",
              confidence |-> input.confidence,
              reason |-> <<"Looking at screen">>]

\* a plausible slip: on equal confidences the analysis wins
CombineAnalysisTieToAI(mediapipe, overshootAnalysis) ==
    IF overshootAnalysis # NoAnalysis
    THEN IF mediapipe.state = overshootAnalysis.state
         THEN [state |-> mediapipe.state,
               confidence |->
                   Min(Frac(1, 1),
                       (mediapipe.confidence + overshootAnalysis.confidence) \div 2),
               reason |-> mediapipe.reason \o <<" | ">> \o AIReason(overshootAnalysis)]
         ELSE IF overshootAnalysis.confidence >= mediapipe.confidence
         THEN [state |-> overshootAnalysis.state,
               confidence |->
                   (overshootAnalysis.confidence * 7 + mediapipe.confidence * 3) \div 10,
               reason |-> AIReason(overshootAnalysis) \o <<" (MediaPipe: ">>
                              \o mediapipe.reason \o <<")">>]
         ELSE [state |-> mediapipe.state,
               confidence |->
                   (mediapipe.confidence * 7 + overshootAnalysis.confidence * 3) \div 10,
               reason |-> mediapipe.reason \o <<" (">> \o AIReason(overshootAnalysis)
                              \o <<")">>]
    ELSE mediapipe

\* lines 133-166: combine MediaPipe and Overshoot analysis
CombineAnalysis(mediapipe, overshootAnalysis) ==
    IF overshootAnalysis # NoAnalysis
    THEN IF mediapipe.state = overshootAnalysis.state
         THEN [state |-> mediapipe.state,
               confidence |->
                   Min(Frac(1, 1),
                       (mediapipe.confidence + overshootAnalysis.confidence) \div 2),
               reason |-> mediapipe.reason \o <<" | ">> \o AIReason(overshootAnalysis)]
         ELSE IF overshootAnalysis.confidence > mediapipe.confidence
         THEN [state |-> overshootAnalysis.state,
               confidence |->
                   (overshootAnalysis.confidence * 7 + mediapipe.confidence * 3) \div 10,
               reason |-> AIReason(overshootAnalysis) \o <<" (MediaPipe: ">>
                              \o mediapipe.reason \o <<")">>]
         ELSE [state |-> mediapipe.state,
               confidence |->
                   (mediapipe.confidence * 7 + overshootAnalysis.confidence * 3) \div 10,
               reason |-> mediapipe.reason \o <<" (">> \o AIReason(overshootAnalysis)
                              \o <<")">>]
    ELSE mediapipe

\* a plausible slip: the confidence rule is tried before the face rule
classifyFocusStateConfidenceFirst(input) ==
    IF input.confidence < MIN_CONFIDENCE THEN LowConfidenceResult(input)
    ELSE IF ~input.faceDetected THEN NoFaceResult(input)
    ELSE IF ~input.headPose.present THEN NoHeadPoseResult(input)
    ELSE CombineAnalysis(MediapipeDetection(input), input.overshootAnalysis)

classifyFocusState(input) ==
    IF ~input.faceDetected THEN NoFaceResult(input)
    ELSE IF input.confidence < MIN_CONFIDENCE THEN LowConfidenceResult(input)
    ELSE IF ~input.headPose.present THEN NoHeadPoseResult(input)
    ELSE CombineAnalysis(MediapipeDetection(input), input.overshootAnalysis)

\* A landmark array: its length, whether every entry the estimators read is
\* a point, the angles its geometry yields (degrees, before clamping) and
\* whether its eye aspect ratio exceeds 0.15.  NoLandmarks is a missing array.
NoLandmarks ==
    [length |-> -1, points |-> FALSE, yaw |-> 0, pitch |-> 0, roll |-> 0, ear |-> FALSE]

clamp(value, min, max) ==
    IF value < min THEN min ELSE IF value > max THEN max ELSE value

\* a plausible slip: the length of the array is not checked
calculateHeadPoseUnchecked(landmarks) ==
    IF landmarks = NoLandmarks
    THEN NoPose
    ELSE IF ~landmarks.points
    THEN NoPose
    ELSE [yaw |-> clamp(landmarks.yaw, -90, 90),
          pitch |-> clamp(landmarks.pitch, -90, 90),
          roll |-> clamp(landmarks.roll, -180, 180),
          present |-> TRUE]

\* reading a field of an entry that is no point throws, and catch returns null
calculateHeadPose(landmarks) ==
    IF landmarks = NoLandmarks \/ landmarks.length < 468
    THEN NoPose
    ELSE IF ~landmarks.points
    THEN NoPose
    ELSE [yaw |-> clamp(landmarks.yaw, -90, 90),
          pitch |-> clamp(landmarks.pitch, -90, 90),
          roll |-> clamp(landmarks.roll, -180, 180),
          present |-> TRUE]

areEyesOpen(landmarks) ==
    IF landmarks = NoLandmarks \/ landmarks.length < 468
    THEN TRUE
    ELSE IF ~landmarks.points
    THEN TRUE
    ELSE landmarks.ear

\* processFrame, from detectForVideo's faceLandmarks to the classifier's input
FrameInput(faceLandmarks, analysis) ==
    IF Len(faceLandmarks) > 0
    THEN [faceDetected |-> TRUE,
          headPose |-> calculateHeadPose(faceLandmarks[1]),
          eyesOpen |-> areEyesOpen(faceLandmarks[1]),
          confidence |-> Frac(9, 10),
          overshootAnalysis |-> analysis]
    ELSE [faceDetected |-> FALSE,
          headPose |-> NoPose,
          eyesOpen |-> TRUE,
          confidence |-> 0,
          overshootAnalysis |-> analysis]

\* ------------------------------------------------ useOvershootDetection.ts
\* The object JSON.parse makes of result.result: the fields it has and their
\* values.  A field that is absent, or a reason that is "", is falsy.
PayloadStates == {"focused", "distracted", "idle", "unknown", "busy"}

PayloadReasons == {"User is away", "Looking at phone"}

\* reasonLower.includes('away') || ... 'no user' ... 'empty' ... 'not present'
MentionsAbsence(reason) == reason \in {"User is away"}

Payloads ==
    [has : SUBSET {"state", "focused", "reason", "confidence"},
     state : PayloadStates,
     focused : BOOLEAN,
     reason : PayloadReasons,
     confidence : {Frac(3, 2)}]

\* onResult, lines 105-142: the analysis made of a parsed payload
AnalysisOf(data) ==
    LET analysisState ==
            IF "state" \in data.has /\ data.state \in {"focused", "distracted", "idle"}
            THEN data.state
            ELSE IF "focused" \in data.has /\ data.focused
            THEN "focused"
            ELSE IF "focused" \in data.has /\ ~data.focused
            THEN IF "reason" \in data.has /\ MentionsAbsence(data.reason)
                 THEN "idle" ELSE "distracted"
            ELSE "unknown"
        reason ==
            IF "reason" \in data.has THEN data.reason
            ELSE IF analysisState = "focused" THEN "Looking at screen"
            ELSE "Not focused"
        confidence ==
            IF "confidence" \in data.has
            THEN clamp(data.confidence, 0, Frac(1, 1))
            ELSE Frac(8, 10)
    IN  [focused |-> IF "focused" \in data.has THEN data.focused
                     ELSE analysisState = "focused",
         state |-> analysisState,
         reason |-> reason,
         confidence |-> confidence]

\* ----------------------------------------------------------------- state
VARIABLES
    store,          \* the zustand store (useFocusStore)
    now,            \* Date.now()
    genAI,          \* gemini.ts: TRUE when the client is initialised
    isGenerating,   \* isGeneratingRef.current
    calls,          \* generateContent requests awaiting the service
    pollDue,        \* the interval callback has yet to run at this instant
    session,        \* number of startSession calls so far
    verdicts,       \* number of verdicts delivered so far
    focusRun,       \* observer: the current run of Focused verdicts
    detectionMode,  \* page.tsx: 'classic' or 'overshoot'
    overshootAnalysis, \* page.tsx: the analysis onAnalysis stored last
    deliveries,     \* number of results the vision oracle has delivered
    frame,          \* faceLandmarks of the frame processed last
    input,          \* the input classifyFocusState was given last
    result          \* what classifyFocusState returned last

engineVars ==
    <<store, now, genAI, isGenerating, calls, pollDue, session, verdicts, focusRun>>

detectionVars == <<detectionMode, overshootAnalysis, deliveries, frame, input, result>>

vars == <<store, now, genAI, isGenerating, calls, pollDue, session, verdicts, focusRun,
          detectionMode, overshootAnalysis, deliveries, frame, input, result>>

\* nothing classified yet
NoInput == [faceDetected |-> FALSE]

NoResult == [state |-> "none"]

\* page.tsx and useFocusDetection before the first frame
DetectionInit ==
    /\ detectionMode = "classic"
    /\ overshootAnalysis = NoAnalysis
    /\ deliveries = 0
    /\ frame = <<>>
    /\ input = NoInput
    /\ result = NoResult

\* The user, the classifier and the message service act at the instants
\* Epoch + k * Step.  Every threshold is a multiple of Step, so every
\* timestamp the store holds is such an instant and a poll at any other
\* time finds no rule newly satisfied.
Step == LEVEL_1_DELAY

EnvInstant == (now - Epoch) % Step = 0

\* observer of the verdict stream: since when the state has been Focused
\* without a break, the level at that moment, and the Focused verdicts since
NoRun == [since |-> Null, level |-> 0, verdicts |-> 0]

FocusRunAfter(newState) ==
    IF newState # "focused" THEN NoRun
    ELSE IF store.focusState = "focused" /\ focusRun # NoRun
    THEN [focusRun EXCEPT !.verdicts = @ + 1]
    ELSE [since |-> now, level |-> store.escalationLevel, verdicts |-> 1]

RemoveAt(q, i) == SubSeq(q, 1, i - 1) \o SubSeq(q, i + 1, Len(q))

Init ==
    /\ DetectionInit
    /\ store = InitialStore
    /\ now = Epoch
    /\ genAI \in BOOLEAN
    /\ isGenerating = FALSE
    /\ calls = <<>>
    /\ pollDue = FALSE
    /\ session = 0
    /\ verdicts = 0
    /\ focusRun = NoRun

\* page.tsx handleStartSession; the effect of useEscalation then starts
\* the interval, whose first callback runs one interval later
StartSession ==
    /\ UNCHANGED detectionVars
    /\ EnvInstant
    /\ session < MaxSessions
    /\ store' = startSession(store, now)
    /\ session' = session + 1
    /\ pollDue' = FALSE
    /\ focusRun' = NoRun
    /\ UNCHANGED <<now, genAI, isGenerating, calls, verdicts>>

\* page.tsx handleEndSession; the effect cleanup clears the interval
EndSession ==
    /\ UNCHANGED detectionVars
    /\ EnvInstant
    /\ store.isSessionActive
    /\ store' = endSession(store)
    /\ pollDue' = FALSE
    /\ focusRun' = NoRun
    /\ UNCHANGED <<now, genAI, isGenerating, calls, session, verdicts>>

\* page.tsx handleApiKeySubmit
InitializeGemini ==
    /\ UNCHANGED detectionVars
    /\ EnvInstant
    /\ ~genAI
    /\ genAI' = TRUE
    /\ UNCHANGED <<store, now, isGenerating, calls, pollDue, session, verdicts, focusRun>>

\* page.tsx onStateChange: a verdict of the classifier reaches the store
VerdictWithin(limit) ==
    /\ UNCHANGED detectionVars
    /\ EnvInstant
    /\ verdicts < limit
    /\ \E newState \in FocusStates, reason \in Reasons :
          /\ store' = updateFocusState(store, newState, reason, now)
          /\ focusRun' = FocusRunAfter(newState)
    /\ verdicts' = verdicts + 1
    /\ UNCHANGED <<now, genAI, isGenerating, calls, pollDue, session>>

Verdict == VerdictWithin(MaxVerdicts)

\* a plausible slip: the escalation also clears the ladder, as handleDismiss does
HandleEscalationResumeClearing(message, t) ==
    /\ store' = escalate(setPendingMessage(resetEscalation(store), message), t)
    /\ isGenerating' = FALSE

\* handleEscalation from `await generateInterventionMessage` on
HandleEscalationResume(message, t) ==
    /\ store' = escalate(setPendingMessage(store, message), t)
    /\ isGenerating' = FALSE

\* a plausible slip: the escalation rule tests the episode start only, not
\* the classifier state
checkEscalationAnyState ==
    /\ UNCHANGED detectionVars
    /\ pollDue
    /\ pollDue' = FALSE
    /\ UNCHANGED <<now, genAI, session, verdicts, focusRun>>
    /\ IF ~checkEscalationEnters(store.isSessionActive, isGenerating)
       THEN UNCHANGED <<store, isGenerating, calls>>
       ELSE IF /\ store.focusState = "focused"
               /\ Truthy(store.focusedSinceReset)
               /\ now - store.focusedSinceReset >= RESET_FOCUS_TIME
               /\ store.escalationLevel > 0
       THEN /\ store' = resetEscalation(store)
            /\ UNCHANGED <<isGenerating, calls>>
       ELSE IF ~Truthy(store.distractionStartTime)
       THEN UNCHANGED <<store, isGenerating, calls>>
       ELSE LET distractionDuration == now - store.distractionStartTime
                timeSinceLastEscalation ==
                    IF Truthy(store.lastEscalationTime)
                    THEN now - store.lastEscalationTime
                    ELSE distractionDuration
                r == determineEscalationLevel(store.escalationLevel,
                         distractionDuration, timeSinceLastEscalation)
            IN  IF r.shouldEscalate /\ r.newLevel > store.escalationLevel
                THEN IF ~genAI
                     THEN /\ \E m \in getRandomFallbackMessage(r.newLevel) :
                                HandleEscalationResume(m, now)
                          /\ UNCHANGED calls
                     ELSE /\ isGenerating' = TRUE
                          /\ calls' = Append(calls,
                                [escalationLevel |-> r.newLevel,
                                 session |-> session])
                          /\ UNCHANGED store
                ELSE UNCHANGED <<store, isGenerating, calls>>

\* the interval callback: checkEscalation, and handleEscalation up to its
\* await.  With no client generateInterventionMessage resolves at once and
\* handleEscalation runs to its end before any other task.
checkEscalation ==
    /\ UNCHANGED detectionVars
    /\ pollDue
    /\ pollDue' = FALSE
    /\ UNCHANGED <<now, genAI, session, verdicts, focusRun>>
    /\ IF ~checkEscalationEnters(store.isSessionActive, isGenerating)
       THEN UNCHANGED <<store, isGenerating, calls>>
       ELSE IF /\ store.focusState = "focused"
               /\ Truthy(store.focusedSinceReset)
               /\ now - store.focusedSinceReset >= RESET_FOCUS_TIME
               /\ store.escalationLevel > 0
       THEN /\ store' = resetEscalation(store)
            /\ UNCHANGED <<isGenerating, calls>>
       ELSE IF store.focusState # "distracted" \/ ~Truthy(store.distractionStartTime)
       THEN UNCHANGED <<store, isGenerating, calls>>
       ELSE LET distractionDuration == now - store.distractionStartTime
                timeSinceLastEscalation ==
                    IF Truthy(store.lastEscalationTime)
                    THEN now - store.lastEscalationTime
                    ELSE distractionDuration
                r == determineEscalationLevel(store.escalationLevel,
                         distractionDuration, timeSinceLastEscalation)
            IN  IF r.shouldEscalate /\ r.newLevel > store.escalationLevel
                THEN IF ~genAI
                     THEN /\ \E m \in getRandomFallbackMessage(r.newLevel) :
                                HandleEscalationResume(m, now)
                          /\ UNCHANGED calls
                     ELSE /\ isGenerating' = TRUE
                          /\ calls' = Append(calls,
                                [escalationLevel |-> r.newLevel,
                                 session |-> session])
                          /\ UNCHANGED store
                ELSE UNCHANGED <<store, isGenerating, calls>>

\* the service settles a request and handleEscalation resumes
ServiceReturn ==
    /\ UNCHANGED detectionVars
    /\ EnvInstant
    /\ \E i \in 1..Len(calls), o \in ServiceOutcomes :
          /\ \E m \in generateAfterAwait(calls[i].escalationLevel, o) :
                HandleEscalationResume(m, now)
          /\ calls' = RemoveAt(calls, i)
    /\ UNCHANGED <<now, genAI, pollDue, session, verdicts, focusRun>>

\* InterventionOverlay (rendered at level 1 and 2 while pendingMessage is
\* truthy): click on dismiss
Dismiss ==
    /\ UNCHANGED detectionVars
    /\ EnvInstant
    /\ store.escalationLevel \in {1, 2}
    /\ store.pendingMessage # NoMessage
    /\ store.pendingMessage.text # <<>>
    /\ store' = dismissIntervention(store, now)
    /\ UNCHANGED <<now, genAI, isGenerating, calls, pollDue, session, verdicts, focusRun>>

\* UltimateDeterrent (rendered at level 3): handleDismiss
HandleDismiss ==
    /\ UNCHANGED detectionVars
    /\ EnvInstant
    /\ store.escalationLevel = 3
    /\ store' = resetEscalation(dismissIntervention(store, now))
    /\ UNCHANGED <<now, genAI, isGenerating, calls, pollDue, session, verdicts, focusRun>>

\* d ms pass; setInterval makes the callback due while a session is active
Elapse(d, horizon) ==
    /\ UNCHANGED detectionVars
    /\ ~pollDue
    /\ now + d <= Epoch + horizon
    /\ now' = now + d
    /\ pollDue' = store.isSessionActive
    /\ UNCHANGED <<store, genAI, isGenerating, calls, session, verdicts, focusRun>>

\* time passes to the next instant at which a poll can find a rule newly
\* satisfied; the polls in between change nothing
Pass == Elapse(Step, MaxTime)

Next ==
    \/ StartSession
    \/ EndSession
    \/ InitializeGemini
    \/ Verdict
    \/ checkEscalation
    \/ ServiceReturn
    \/ Dismiss
    \/ HandleDismiss
    \/ Pass

Spec == Init /\ [][Next]_vars

\* ------------------------------------------------- one session, long run
\* The state after startSession at the Epoch; no session boundary follows.
InitSession ==
    /\ DetectionInit
    /\ store = startSession(InitialStore, Epoch)
    /\ now = Epoch
    /\ genAI \in BOOLEAN
    /\ isGenerating = FALSE
    /\ calls = <<>>
    /\ pollDue = FALSE
    /\ session = 1
    /\ verdicts = 0
    /\ focusRun = NoRun

PassSession == Elapse(Step, MaxSessionTime)

VerdictSession == VerdictWithin(MaxSessionVerdicts)

NextSession ==
    \/ VerdictSession
    \/ checkEscalation
    \/ ServiceReturn
    \/ Dismiss
    \/ HandleDismiss
    \/ PassSession

SpecSession == InitSession /\ [][NextSession]_vars

\* ------------------------------------- the ladder under a simulated clock
\* A fresh session in which the verdict Distracted arrives at the Epoch and
\* no other verdict follows; the clock advances poll by poll and the message
\* service answers at once.
InitLadder ==
    /\ DetectionInit
    /\ \E reason \in Reasons :
          store = updateFocusState(startSession(InitialStore, Epoch),
                                   "distracted", reason, Epoch)
    /\ now = Epoch
    /\ genAI \in BOOLEAN
    /\ isGenerating = FALSE
    /\ calls = <<>>
    /\ pollDue = FALSE
    /\ session = 1
    /\ verdicts = 1
    /\ focusRun = NoRun

\* time passes to the next poll, no request being outstanding
Tick ==
    /\ calls = <<>>
    /\ Elapse(ESCALATION_CHECK_INTERVAL, MaxTime)

NextLadder ==
    \/ checkEscalation
    \/ ServiceReturn
    \/ Tick

SpecLadder == InitLadder /\ [][NextLadder]_vars

\* --------------------------------------- a message service that may not answer
\* past the horizon of the clock the polls go on; a poll that finds the lock
\* held returns before it reads the clock
TickLocked ==
    /\ UNCHANGED detectionVars
    /\ isGenerating
    /\ ~pollDue
    /\ now + ESCALATION_CHECK_INTERVAL > Epoch + MaxTime
    /\ pollDue' = store.isSessionActive
    /\ UNCHANGED <<store, now, genAI, isGenerating, calls, session, verdicts, focusRun>>

TickLive ==
    \/ Elapse(ESCALATION_CHECK_INTERVAL, MaxTime)
    \/ TickLocked

NextLive ==
    \/ checkEscalation
    \/ ServiceReturn
    \/ TickLive

\* The interval keeps firing and its callback runs; nothing obliges the
\* service to settle a request.
SpecLive ==
    InitLadder /\ [][NextLive]_vars /\ WF_vars(TickLive) /\ WF_vars(checkEscalation)

\* ------------------------------------------- the end-to-end trace of a session
\* Distracted from the start of the session; the verdict Focused arrives 6 s
\* later, after the poll of that instant, and the state stays Focused.  The
\* message service answers before the next poll.
SwitchToFocused ==
    /\ UNCHANGED detectionVars
    /\ now = Epoch + 6000
    /\ ~pollDue
    /\ store.focusState = "distracted"
    /\ \E reason \in Reasons :
          store' = updateFocusState(store, "focused", reason, now)
    /\ focusRun' = FocusRunAfter("focused")
    /\ verdicts' = verdicts + 1
    /\ UNCHANGED <<now, genAI, isGenerating, calls, pollDue, session>>

\* the classifier delivers the state it delivered last once more
RepeatVerdict ==
    /\ UNCHANGED detectionVars
    /\ ~pollDue
    /\ verdicts < MaxSessionVerdicts
    /\ \E reason \in Reasons :
          store' = updateFocusState(store, store.focusState, reason, now)
    /\ focusRun' = FocusRunAfter(store.focusState)
    /\ verdicts' = verdicts + 1
    /\ UNCHANGED <<now, genAI, isGenerating, calls, pollDue, session>>

\* time passes to the next poll, no request being outstanding
TickTrace ==
    /\ calls = <<>>
    /\ (now = Epoch + 6000) => store.focusState = "focused"
    /\ Elapse(ESCALATION_CHECK_INTERVAL, MaxTraceTime)

NextTrace ==
    \/ checkEscalation
    \/ ServiceReturn
    \/ SwitchToFocused
    \/ RepeatVerdict
    \/ TickTrace

SpecTrace == InitLadder /\ [][NextTrace]_vars

\* ------------------------------------ several episodes within one session
\* A session in which the verdict Distracted arrived at the Epoch; any
\* verdicts follow, and no session boundary.
VerdictEpisodes == VerdictWithin(MaxEpisodeVerdicts)

PassEpisodes == Elapse(Step, MaxEpisodeTime)

NextEpisodes ==
    \/ VerdictEpisodes
    \/ checkEscalation
    \/ ServiceReturn
    \/ Dismiss
    \/ HandleDismiss
    \/ PassEpisodes

SpecEpisodes == InitLadder /\ [][NextEpisodes]_vars

\* --------------------------------------------- up the ladder and off it
\* A session in which the verdict Distracted arrived at the Epoch, long
\* enough for level 3 to be reached and for 30 s of Focused after it; the
\* session may be ended.
VerdictDeterrent == VerdictWithin(MaxDeterrentVerdicts)

PassDeterrent == Elapse(Step, MaxDeterrentTime)

NextDeterrent ==
    \/ EndSession
    \/ VerdictDeterrent
    \/ checkEscalation
    \/ ServiceReturn
    \/ Dismiss
    \/ HandleDismiss
    \/ PassDeterrent

SpecDeterrent == InitLadder /\ [][NextDeterrent]_vars

\* ------------------------------------- a user who stays distracted for good
\* The state stays Distracted from the Epoch on: the classifier may deliver
\* Distracted again, the user dismisses interventions, and the message
\* service settles every request.

\* past the horizon of the clock the polls go on; a poll that finds the
\* state distracted and no distractionStartTime returns before it uses the
\* clock
TickIdle ==
    /\ UNCHANGED detectionVars
    /\ ~pollDue
    /\ now + Step > Epoch + MaxTime
    /\ store.focusState = "distracted"
    /\ ~Truthy(store.distractionStartTime)
    /\ pollDue' = store.isSessionActive
    /\ UNCHANGED <<store, now, genAI, isGenerating, calls, session, verdicts, focusRun>>

TickProgress ==
    \/ Elapse(Step, MaxTime)
    \/ TickIdle

NextProgress ==
    \/ RepeatVerdict
    \/ checkEscalation
    \/ ServiceReturn
    \/ Dismiss
    \/ HandleDismiss
    \/ TickProgress

\* The interval keeps firing, its callback runs and the service answers;
\* nothing obliges the user to dismiss or the classifier to deliver.
SpecProgress ==
    /\ InitLadder
    /\ [][NextProgress]_vars
    /\ WF_vars(TickProgress)
    /\ WF_vars(checkEscalation)
    /\ WF_vars(ServiceReturn)

\* ------------------------------------------------- the detection pipeline
\* A session is active and the camera is on: useFocusDetection processes
\* frames at its own cadence and, in mode 'overshoot', the vision oracle
\* delivers results at its own.

\* page.tsx, the Detection Mode select
SetDetectionMode ==
    /\ \E mode \in {"classic", "overshoot"} :
          /\ mode # detectionMode
          /\ detectionMode' = mode
    /\ UNCHANGED <<overshootAnalysis, deliveries, frame, input, result>>
    /\ UNCHANGED engineVars

\* onResult of RealtimeVision: a result with no text, or one JSON.parse or
\* the reading of its fields throws on, leaves the stored analysis alone;
\* any other reaches onAnalysis, which stores it
OnResult ==
    /\ detectionMode = "overshoot"
    /\ deliveries < MaxDeliveries
    /\ deliveries' = deliveries + 1
    /\ \/ UNCHANGED overshootAnalysis
       \/ \E data \in Payloads : overshootAnalysis' = AnalysisOf(data)
    /\ UNCHANGED <<detectionMode, frame, input, result>>
    /\ UNCHANGED engineVars

\* what detectForVideo can return as faceLandmarks
ShortLandmarks ==
    [length : {0, 467}, points : {TRUE}, yaw : {30}, pitch : {0}, roll : {0},
     ear : {FALSE}]

FullLandmarks ==
    [length : {468}, points : BOOLEAN, yaw : {0, 30}, pitch : {0}, roll : {0},
     ear : BOOLEAN]

Frames == {<<>>} \cup {<<l>> : l \in ShortLandmarks \cup FullLandmarks}

\* processFrame with the analysis page.tsx passes down
ProcessFrame ==
    /\ \E faceLandmarks \in Frames :
          /\ frame' = faceLandmarks
          /\ input' = FrameInput(faceLandmarks,
                          IF detectionMode = "overshoot"
                          THEN overshootAnalysis ELSE NoAnalysis)
          /\ result' = classifyFocusState(input')
    /\ UNCHANGED <<detectionMode, overshootAnalysis, deliveries>>
    /\ UNCHANGED engineVars

NextDetect ==
    \/ SetDetectionMode
    \/ OnResult
    \/ ProcessFrame

SpecDetect == InitSession /\ [][NextDetect]_vars

\* requestAnimationFrame keeps calling processFrame; nothing obliges the
\* oracle to deliver or the user to change the mode
SpecDetectLive == InitSession /\ [][NextDetect]_vars /\ WF_vars(ProcessFrame)

\* ------------------------------------------- classifyFocusState, any input
Yaws == {-90, -26, -25, 0, 25, 26, 90}

Pitches == {-21, 0, 20, 21, 90}

LocalConfidences == {Frac(k, 10) : k \in {0, 4, 5, 6, 9, 10}}

OracleConfidences == {Frac(k, 10) : k \in {0, 5, 7, 8, 9, 10}}

Analyses ==
    [focused : {FALSE}, state : FocusStates, reason : {"Looking at phone"},
     confidence : OracleConfidences]

ClassifierInputs ==
    [faceDetected : BOOLEAN,
     headPose : {NoPose} \cup
                [yaw : Yaws, pitch : Pitches, roll : {0}, present : {TRUE}],
     eyesOpen : BOOLEAN,
     confidence : LocalConfidences,
     overshootAnalysis : {NoAnalysis} \cup Analyses]

InitClassify ==
    /\ store = InitialStore
    /\ now = Epoch
    /\ genAI = FALSE
    /\ isGenerating = FALSE
    /\ calls = <<>>
    /\ pollDue = FALSE
    /\ session = 0
    /\ verdicts = 0
    /\ focusRun = NoRun
    /\ detectionMode = "classic"
    /\ overshootAnalysis = NoAnalysis
    /\ deliveries = 0
    /\ frame = <<>>
    /\ input \in ClassifierInputs
    /\ result = NoResult

Classify ==
    /\ result = NoResult
    /\ result' = classifyFocusState(input)
    /\ UNCHANGED <<detectionMode, overshootAnalysis, deliveries, frame, input>>
    /\ UNCHANGED engineVars

SpecClassify == InitClassify /\ [][Classify]_vars

\* ================================================================ claims

\* C1: in a fresh session with Distracted from t = 0 on, a 500 ms poll and a
\* message service that answers at once, level is 0 at every poll before
\* 5 s, 1 from the poll at 5 s until 15 s, 2 from the poll at 15 s until
\* 30 s, and 3 from the poll at 30 s on.
LadderLevel(t) ==
    IF t < 5000 THEN 0 ELSE IF t < 15000 THEN 1 ELSE IF t < 30000 THEN 2 ELSE 3

C1_LadderSchedule ==
    /\ (~pollDue /\ calls = <<>>) =>
          store.escalationLevel = LadderLevel(now - Epoch)
    /\ pollDue =>
          store.escalationLevel = LadderLevel(now - Epoch - ESCALATION_CHECK_INTERVAL)

C1_Witness ==
    /\ store.escalationLevel = 3
    /\ now - Epoch = 30000
    /\ ~pollDue
    /\ store.focusState = "distracted"

\* C2: while a message-generation call is in flight no poll starts another
\* escalation: at most one call is outstanding, a poll during the call
\* changes nothing, and no step raises level by more than one.
C2_SingleFlight ==
    [][ /\ Len(calls') <= 1
        /\ (calls # <<>> /\ checkEscalation) =>
              UNCHANGED <<store, calls, isGenerating>>
        /\ store'.escalationLevel <= store.escalationLevel + 1 ]_vars

C2_Witness ==
    /\ calls # <<>>
    /\ isGenerating
    /\ ~pollDue
    /\ store.isSessionActive
    /\ store.focusState = "distracted"
    /\ store.escalationLevel = 0
    /\ now - store.distractionStartTime >= LEVEL_1_DELAY + LEVEL_2_DELAY

\* C3: when endSession is called while a message-generation call is
\* outstanding, the returning call changes none of level, pendingMessage
\* and lastEscalationTime, in the ended session or in a later one.
C3_DiscardAfterEnd ==
    [][ ( /\ calls # <<>>
          /\ ServiceReturn
          /\ (~store.isSessionActive \/ calls[1].session # session) ) =>
        ( /\ store'.escalationLevel = store.escalationLevel
          /\ store'.pendingMessage = store.pendingMessage
          /\ store'.lastEscalationTime = store.lastEscalationTime ) ]_vars

\* C4: within a session level decreases only by a reset to 0, made either
\* by the sustained-focus rule (Focused, focus timer at least 30 s old,
\* level > 0) or by the dismissal of the level-3 intervention.
SustainedFocusDue ==
    /\ store.focusState = "focused"
    /\ store.focusedSinceReset # Null
    /\ now - store.focusedSinceReset >= 30000
    /\ store.escalationLevel > 0

C5_ResetAfter30s ==
    ( /\ store.isSessionActive
      /\ focusRun # NoRun
      /\ focusRun.level >= 1
      /\ now = focusRun.since + 30000
      /\ ~pollDue ) =>
    ( /\ store.escalationLevel = 0
      /\ store.distractionStartTime = Null
      /\ store.lastEscalationTime = Null
      /\ store.focusedSinceReset = Null
      /\ store.pendingMessage = NoMessage )

C7_MessageNonEmpty ==
    [][ ( \/ ServiceReturn
          \/ checkEscalation /\ store'.escalationLevel > store.escalationLevel ) =>
        ( /\ store'.pendingMessage # NoMessage
          /\ store'.pendingMessage.text # <<>>
          /\ store'.pendingMessage.pool \in {0, store'.escalationLevel}
          /\ store'.escalationLevel = store.escalationLevel + 1 ) ]_vars

\* C8: a message-generation call that never responds does not block the
\* engine: the call ends by a timeout and the lock that keeps polls from
\* evaluating the escalate and reset rules is released.
C8_CallBounded == isGenerating ~> ~isGenerating

\* C9: dismissIntervention, applied in any reachable state, clears
\* pendingMessage and leaves level, the three timers and sessionStats alone.
C9_DismissFrame ==
    LET d == dismissIntervention(store, now)
    IN  /\ d.pendingMessage = NoMessage
        /\ d.escalationLevel = store.escalationLevel
        /\ d.distractionStartTime = store.distractionStartTime
        /\ d.lastEscalationTime = store.lastEscalationTime
        /\ d.focusedSinceReset = store.focusedSinceReset
        /\ d.sessionStats = store.sessionStats
        /\ d.focusState = store.focusState
        /\ d.isSessionActive = store.isSessionActive

\* level 2 was reached on schedule after the level-1 message was dismissed,
\* and the level-2 message has been dismissed in turn
C9_Witness ==
    /\ store.isSessionActive
    /\ store.focusState = "distracted"
    /\ store.escalationLevel = 2
    /\ store.pendingMessage = NoMessage
    /\ store.lastEscalationTime = store.distractionStartTime + LEVEL_1_DELAY + LEVEL_2_DELAY
    /\ store.lastInterventionTime > store.lastEscalationTime

\* C10: startSession, applied in any reachable state, leaves level 0, the
\* three timers and pendingMessage absent and the three counters 0.
C10_StartSessionZeroes ==
    LET z == startSession(store, now)
    IN  /\ z.isSessionActive
        /\ z.escalationLevel = 0
        /\ z.distractionStartTime = Null
        /\ z.lastEscalationTime = Null
        /\ z.focusedSinceReset = Null
        /\ z.pendingMessage = NoMessage
        /\ z.sessionStats.distractionCount = 0
        /\ z.sessionStats.totalFocusedTime = 0
        /\ z.sessionStats.totalDistractedTime = 0

\* a second session has just been started over a session that had escalated
\* and still has a generation call outstanding
C10_Witness ==
    /\ session = 2
    /\ store.isSessionActive
    /\ store.focusReason = "Detecting focus..."
    /\ store.sessionStats.startTime = now
    /\ store.escalationLevel = 0
    /\ store.lastEscalationTime = Null
    /\ calls # <<>>
    /\ calls[1].escalationLevel = 2

\* C11: in a fresh session 6 s of Distracted, polled every 500 ms, lead to
\* level 1 with a non-empty pendingMessage, and 31 s of Focused that follow
\* at once lead to level 0 with pendingMessage absent.
C11_EndToEnd ==
    /\ ( /\ now = Epoch + 6000
         /\ ~pollDue
         /\ store.focusState = "distracted" ) =>
       ( /\ store.escalationLevel = 1
         /\ store.pendingMessage # NoMessage
         /\ store.pendingMessage.text # <<>> )
    /\ ( /\ now = Epoch + 6000 + 31000
         /\ ~pollDue
         /\ store.focusState = "focused" ) =>
       ( /\ store.escalationLevel = 0
         /\ store.pendingMessage = NoMessage )

\* C12: an oracle verdict that is no longer refreshed is treated like no
\* verdict: the oracle delivers finitely many results, and whenever the
\* classifier has used a verdict it later classifies on the local signal
\* alone.
C12_StaleVerdictDropped ==
    (result # NoResult /\ input.overshootAnalysis # NoAnalysis)
        ~> (result # NoResult /\ input.overshootAnalysis = NoAnalysis)

\* C13: every oracle verdict handed to the classifier has state focused,
\* distracted or idle, never unknown, whatever payload the oracle delivered.
C13_OracleStateKnown ==
    /\ overshootAnalysis # NoAnalysis =>
          overshootAnalysis.state \in {"focused", "distracted", "idle"}
    /\ (result # NoResult /\ input.overshootAnalysis # NoAnalysis) =>
          input.overshootAnalysis.state \in {"focused", "distracted", "idle"}

\* C14: for every input with no face detected and no oracle verdict the
\* result is idle with confidence 1.0, whatever the other fields are.
C14_NoFaceIdle ==
    ( /\ result # NoResult
      /\ ~input.faceDetected
      /\ input.overshootAnalysis = NoAnalysis ) =>
    ( /\ result.state = "idle"
      /\ result.confidence = Frac(1, 1) )

C14_Witness ==
    /\ result.state = "idle"
    /\ ~input.faceDetected
    /\ input.overshootAnalysis = NoAnalysis
    /\ input.headPose.present
    /\ input.headPose.yaw = 90
    /\ ~input.eyesOpen
    /\ input.confidence = 0

\* C15: with a face, local confidence >= 0.5, no oracle verdict and a head
\* pose of |yaw| > 25 the result is distracted, and its reason says left
\* exactly when yaw < 0 and right exactly when yaw > 0, whatever pitch and
\* eyesOpen are.
Says(reason, word) == \E i \in DOMAIN reason : reason[i] = word

C15_YawSide ==
    ( /\ result # NoResult
      /\ input.faceDetected
      /\ input.confidence >= Frac(5, 10)
      /\ input.overshootAnalysis = NoAnalysis
      /\ input.headPose.present
      /\ Abs(input.headPose.yaw) > 25 ) =>
    ( /\ result.state = "distracted"
      /\ Says(result.reason, "left") <=> input.headPose.yaw < 0
      /\ Says(result.reason, "right") <=> input.headPose.yaw > 0 )

C15_Witness ==
    /\ result.state = "distracted"
    /\ Says(result.reason, "left")
    /\ input.faceDetected
    /\ input.overshootAnalysis = NoAnalysis
    /\ input.headPose.present
    /\ input.headPose.yaw = -26
    /\ input.headPose.pitch = 90
    /\ ~input.eyesOpen

\* C16: when the local verdict and the oracle verdict disagree on state,
\* the result has the state of the side with the strictly higher
\* confidence (the local side on a tie), the confidence winner * 0.7 +
\* loser * 0.3, and a reason that names the winner first and gives the
\* other side's explanation in parentheses.
LocalVerdictReached ==
    /\ result # NoResult
    /\ input.faceDetected
    /\ input.confidence >= Frac(5, 10)
    /\ input.headPose.present

C16_DisagreementBlend ==
    ( /\ LocalVerdictReached
      /\ input.overshootAnalysis # NoAnalysis
      /\ MediapipeDetection(input).state # input.overshootAnalysis.state ) =>
    LET local == MediapipeDetection(input)
        oracle == input.overshootAnalysis
    IN  IF oracle.confidence > local.confidence
        THEN /\ result.state = oracle.state
             /\ 10 * result.confidence = 7 * oracle.confidence + 3 * local.confidence
             /\ result.reason =
                   <<"AI: ", oracle.reason, " (MediaPipe: ">> \o local.reason \o <<")">>
        ELSE /\ result.state = local.state
             /\ 10 * result.confidence = 7 * local.confidence + 3 * oracle.confidence
             /\ result.reason =
                   local.reason \o <<" (", "AI: ", oracle.reason, ")">>

\* equal confidences, and the local verdict has won
C16_Witness ==
    /\ LocalVerdictReached
    /\ input.overshootAnalysis # NoAnalysis
    /\ input.overshootAnalysis.state = "distracted"
    /\ input.overshootAnalysis.confidence = Frac(9, 10)
    /\ input.confidence = Frac(9, 10)
    /\ result.state = "focused"
    /\ result.confidence = Frac(9, 10)
    /\ Head(result.reason) = "Looking at screen"

\* C17: for local and oracle confidences of [0, 1] the confidence of the
\* result lies in [0, 1] on every branch of the classifier.
C17_ConfidenceInRange ==
    result # NoResult =>
       (result.confidence >= 0 /\ result.confidence <= Frac(1, 1))

\* a yaw of 90 degrees, whose quotient by 45 is capped at 1
C17_Witness ==
    /\ LocalVerdictReached
    /\ input.overshootAnalysis = NoAnalysis
    /\ input.headPose.yaw = 90
    /\ result.state = "distracted"
    /\ result.confidence = Frac(1, 1)

\* C18: the first three rules apply in order, first match wins: no face
\* gives idle unless the oracle says focused with confidence > 0.8 (then
\* focused at 0.7 of it); else local confidence < 0.5 gives unknown unless
\* the oracle confidence is > 0.7 (then the oracle state at 0.8 of it); else
\* a missing head pose gives unknown unless an oracle verdict exists (then
\* the oracle state at 0.9 of it).
C18_RuleOrder ==
    result # NoResult =>
    LET oracle == input.overshootAnalysis
        present == oracle # NoAnalysis
    IN  IF ~input.faceDetected
        THEN IF present /\ oracle.state = "focused" /\ 10 * oracle.confidence > 8 * Scale
             THEN /\ result.state = "focused"
                  /\ 10 * result.confidence = 7 * oracle.confidence
             ELSE result.state = "idle"
        ELSE IF 10 * input.confidence < 5 * Scale
        THEN IF present /\ 10 * oracle.confidence > 7 * Scale
             THEN /\ result.state = oracle.state
                  /\ 10 * result.confidence = 8 * oracle.confidence
             ELSE result.state = "unknown"
        ELSE IF ~input.headPose.present
        THEN IF present
             THEN /\ result.state = oracle.state
                  /\ 10 * result.confidence = 9 * oracle.confidence
             ELSE result.state = "unknown"
        ELSE TRUE

\* no face, low confidence and no pose at once, with an oracle verdict the
\* second and third rule would adopt: the first rule has answered
C18_Witness ==
    /\ result.state = "idle"
    /\ ~input.faceDetected
    /\ input.confidence = 0
    /\ ~input.headPose.present
    /\ input.overshootAnalysis # NoAnalysis
    /\ input.overshootAnalysis.state = "distracted"
    /\ input.overshootAnalysis.confidence = Frac(9, 10)

\* C19: for a landmark array that is missing or shorter than 468 entries
\* calculateHeadPose returns no pose and areEyesOpen returns open, and the
\* classifier then answers unknown, or with the oracle verdict if there is one.
C19_ShortLandmarks ==
    /\ calculateHeadPose(NoLandmarks) = NoPose
    /\ areEyesOpen(NoLandmarks)
    /\ (Len(frame) > 0 /\ frame[1].length < 468) =>
          /\ input.headPose = NoPose
          /\ input.eyesOpen
          /\ result.state = IF input.overshootAnalysis = NoAnalysis
                            THEN "unknown" ELSE input.overshootAnalysis.state

\* a frame of 467 landmarks whose geometry shows a turned head and closed eyes
C19_Witness ==
    /\ Len(frame) > 0
    /\ frame[1].length = 467
    /\ frame[1].yaw = 30
    /\ ~frame[1].ear
    /\ input.overshootAnalysis = NoAnalysis
    /\ result.state = "unknown"

\* C20: once the state has changed from distracted to another state
\* distractionStartTime is absent: in an active session it is present only
\* while the state is distracted.
C20_StartTimeOnlyWhileDistracted ==
    (store.isSessionActive /\ store.distractionStartTime # Null) =>
        store.focusState = "distracted"

\* C21: once the state has changed from focused to another state
\* focusedSinceReset is absent: in an active session it is present only
\* while the state is focused.
C21_FocusTimerOnlyWhileFocused ==
    (store.isSessionActive /\ store.focusedSinceReset # Null) =>
        store.focusState = "focused"

\* C22: the sustained-focus reset fires only when the state has been
\* Focused without a break for the 30 s before it: a poll lowers level to 0
\* only in a run of Focused verdicts that began at least 30 s earlier.
C22_ResetNeedsUnbrokenFocus ==
    [][ ( /\ checkEscalation
          /\ store.escalationLevel > 0
          /\ store'.escalationLevel = 0 ) =>
        ( /\ focusRun # NoRun
          /\ now - focusRun.since >= RESET_FOCUS_TIME ) ]_vars

\* C23: in a distraction episode in which no escalation has happened yet
\* the escalation timer runs from the start of the episode: a poll at level
\* 1, reached in an earlier episode, starts the escalation to level 2 only
\* once the episode has itself lasted 10 s.
C23_EpisodeTimer ==
    [][ ( /\ checkEscalation
          /\ store.escalationLevel = 1
          /\ store.focusState = "distracted"
          /\ store.lastEscalationTime # Null
          /\ store.lastEscalationTime <= store.distractionStartTime
          /\ (store'.escalationLevel = 2 \/ Len(calls') > Len(calls)) ) =>
        now - store.distractionStartTime >= LEVEL_2_DELAY ]_vars

\* C24: the engine never gets stuck: from every state of an active session
\* with level l < 3 and the state Distracted, the clock still having the
\* delay of level l + 1 to run, level eventually exceeds l while the state
\* stays Distracted and polls and generation calls keep completing; the
\* state after the dismissal of the level-3 intervention included.
RungDelay(l) ==
    IF l = 0 THEN LEVEL_1_DELAY ELSE IF l = 1 THEN LEVEL_2_DELAY ELSE LEVEL_3_DELAY

C24_NeverStuck ==
    \A l \in 0..2 :
        ( /\ store.isSessionActive
          /\ store.focusState = "distracted"
          /\ store.escalationLevel = l
          /\ now + RungDelay(l) <= Epoch + MaxTime )
            ~> (store.escalationLevel > l)

\* C25: level increases only in states whose classifier state is
\* Distracted: a generation call that returns after the state has become
\* Focused, Idle or Unknown does not raise level.
C25_RaiseOnlyWhileDistracted ==
    [][ store'.escalationLevel > store.escalationLevel =>
            store.focusState = "distracted" ]_vars

\* C26: message generation is exactly-once per transition: every increase
\* of level is by one and made by the return of exactly one generation call
\* that was made for the level reached (or by the poll itself when the call
\* resolves at once), every returning call raises level by one, and a poll
\* makes a call only when it escalates, for the level above the current one.
C26_ExactlyOnce ==
    [][ /\ store'.escalationLevel > store.escalationLevel =>
            /\ store'.escalationLevel = store.escalationLevel + 1
            /\ \/ /\ ServiceReturn
                  /\ \E i \in 1..Len(calls) :
                        /\ calls[i].escalationLevel = store'.escalationLevel
                        /\ calls' = RemoveAt(calls, i)
               \/ /\ checkEscalation
                  /\ ~genAI
                  /\ calls' = calls
                  /\ store'.pendingMessage.pool = store'.escalationLevel
        /\ ServiceReturn =>
            /\ Len(calls') = Len(calls) - 1
            /\ store'.escalationLevel = store.escalationLevel + 1
        /\ (checkEscalation /\ calls' # calls) =>
            /\ store.isSessionActive
            /\ store.focusState = "distracted"
            /\ calls' = Append(calls, [escalationLevel |-> store.escalationLevel + 1,
                                       session |-> session])
            /\ store' = store ]_vars

\* C27: a verdict that takes the state from non-Distracted to Distracted
\* adds exactly 1 to distractionCount, sets distractionStartTime to now and
\* clears focusedSinceReset; a Distracted verdict received while Distracted
\* changes none of the three.
C27_EnterDistracted ==
    [][ (verdicts' = verdicts + 1 /\ store'.focusState = "distracted") =>
        IF store.focusState # "distracted"
        THEN /\ store'.sessionStats.distractionCount =
                    store.sessionStats.distractionCount + 1
             /\ store'.distractionStartTime = now
             /\ store'.focusedSinceReset = Null
        ELSE /\ store'.sessionStats.distractionCount =
                    store.sessionStats.distractionCount
             /\ store'.distractionStartTime = store.distractionStartTime
             /\ store'.focusedSinceReset = store.focusedSinceReset ]_vars

\* every verdict of the run was Distracted: one episode, begun at the Epoch
\* and 10 s old
C27_Witness ==
    /\ verdicts = MaxEpisodeVerdicts
    /\ store.focusState = "distracted"
    /\ store.sessionStats.distractionCount = 1
    /\ store.distractionStartTime = Epoch
    /\ store.focusedSinceReset = Null
    /\ now = Epoch + LEVEL_2_DELAY

\* C28: within one poll at most one of the two rules fires.  A poll either
\* changes nothing, or performs the sustained-focus reset and starts no
\* escalation, or starts or performs an escalation in state Distracted and
\* resets nothing: level is not lowered and distractionStartTime and
\* focusedSinceReset stay as they are.
C28_OneRulePerPoll ==
    [][ checkEscalation =>
        \/ UNCHANGED <<store, calls, isGenerating>>
        \/ /\ SustainedFocusDue
           /\ store' = resetEscalation(store)
           /\ UNCHANGED <<calls, isGenerating>>
        \/ /\ store.focusState = "distracted"
           /\ ~SustainedFocusDue
           /\ \/ store'.escalationLevel = store.escalationLevel + 1
              \/ store' = store /\ Len(calls') = Len(calls) + 1
           /\ store'.distractionStartTime = store.distractionStartTime
           /\ store'.focusedSinceReset = store.focusedSinceReset
           /\ store'.distractionStartTime # Null ]_vars

\* a poll has performed the reset 30 s after the Focused verdict that
\* followed the escalation of the poll at 5 s
C28_Witness ==
    /\ store.focusState = "focused"
    /\ store.escalationLevel = 0
    /\ store.lastEscalationTime = Null
    /\ store.focusedSinceReset = Null
    /\ store.sessionStats.totalDistractedTime = LEVEL_1_DELAY
    /\ store.lastInterventionTime = Epoch + LEVEL_1_DELAY
    /\ now = Epoch + LEVEL_1_DELAY + RESET_FOCUS_TIME
    /\ ~pollDue
    /\ calls = <<>>
    /\ ~isGenerating

\* C29: the dismissal of the level-3 intervention resets the whole ladder:
\* afterwards level is 0 and distractionStartTime, lastEscalationTime,
\* focusedSinceReset and pendingMessage are absent; and level 3 is left
\* only by this dismissal, by the sustained-focus reset of a poll, or by
\* the end or the start of a session.
C29_DeterrentDismissal ==
    [][ /\ HandleDismiss =>
            /\ store.escalationLevel = 3
            /\ store'.escalationLevel = 0
            /\ store'.distractionStartTime = Null
            /\ store'.lastEscalationTime = Null
            /\ store'.focusedSinceReset = Null
            /\ store'.pendingMessage = NoMessage
        /\ (store.escalationLevel = 3 /\ store'.escalationLevel # 3) =>
            \/ HandleDismiss
            \/ SustainedFocusDue /\ checkEscalation
            \/ EndSession
            \/ StartSession ]_vars

\* the level-3 intervention was dismissed at the instant level 3 was reached
C29_Witness ==
    /\ store.isSessionActive
    /\ session = 1
    /\ store.focusState = "distracted"
    /\ store.escalationLevel = 0
    /\ store.distractionStartTime = Null
    /\ store.lastEscalationTime = Null
    /\ store.pendingMessage = NoMessage
    /\ store.lastInterventionTime = Epoch + LEVEL_1_DELAY + LEVEL_2_DELAY + LEVEL_3_DELAY
    /\ now = store.lastInterventionTime

\* C30: in every reachable state level is one of 0, 1, 2, 3: escalate
\* applied in any reachable state yields a level of 0..3 and applied at
\* level 3 leaves level 3, and at level 3 no poll decides to escalate.
C30_LevelRange ==
    /\ store.escalationLevel \in 0..3
    /\ escalate(store, now).escalationLevel \in 0..3
    /\ store.escalationLevel = 3 =>
          /\ escalate(store, now).escalationLevel = 3
          /\ \A d \in {0, now - Epoch}, t \in {0, now - Epoch} :
                ~determineEscalationLevel(3, d, t).shouldEscalate

\* level 3 was reached on schedule and has stood for 30 s of Distracted
C30_Witness ==
    /\ store.isSessionActive
    /\ store.focusState = "distracted"
    /\ store.escalationLevel = 3
    /\ store.lastEscalationTime = Epoch + LEVEL_1_DELAY + LEVEL_2_DELAY + LEVEL_3_DELAY
    /\ now = store.lastEscalationTime + RESET_FOCUS_TIME
    /\ ~pollDue

\* C31: a verdict received while no session is active, before the first
\* startSession or after endSession, leaves distractionCount,
\* distractionStartTime and focusedSinceReset as they were.
C31_NoSessionNoUpdate ==
    [][ (~store.isSessionActive /\ verdicts' = verdicts + 1) =>
        /\ store'.sessionStats.distractionCount = store.sessionStats.distractionCount
        /\ store'.distractionStartTime = store.distractionStartTime
        /\ store'.focusedSinceReset = store.focusedSinceReset ]_vars

\* C32: whenever a distraction episode ends in an active session, by a
\* verdict Focused, Idle or Unknown received in state Distracted, the time
\* since the start of the episode is added to totalDistractedTime.
C32_DistractedTimeAdded ==
    [][ ( /\ store.isSessionActive
          /\ verdicts' = verdicts + 1
          /\ store.focusState = "distracted"
          /\ store'.focusState # "distracted"
          /\ store.distractionStartTime # Null ) =>
        store'.sessionStats.totalDistractedTime =
            store.sessionStats.totalDistractedTime + (now - store.distractionStartTime) ]_vars

\* C33: each escalation raises level by exactly 1: a step that raises level
\* raises it by one, so level 2 is entered only from level 1 and level 3
\* only from level 2, whatever polls, verdicts, dismissals and returns of
\* generation calls are interleaved.
C33_OneRungAtATime ==
    [][ /\ store'.escalationLevel > store.escalationLevel =>
            store'.escalationLevel = store.escalationLevel + 1
        /\ (store'.escalationLevel = 2 /\ store.escalationLevel # 2) =>
            store.escalationLevel = 1
        /\ (store'.escalationLevel = 3 /\ store.escalationLevel # 3) =>
            store.escalationLevel = 2 ]_vars

\* level 3 reached at 30 s with a message of the service, in a run in which
\* every verdict was Distracted
C33_Witness ==
    /\ store.escalationLevel = 3
    /\ genAI
    /\ store.pendingMessage.pool = 0
    /\ store.lastEscalationTime = Epoch + LEVEL_1_DELAY + LEVEL_2_DELAY + LEVEL_3_DELAY
    /\ store.sessionStats.distractionCount = 1
    /\ verdicts = MaxEpisodeVerdicts
    /\ calls = <<>>

\* C34: the message an escalation stores as pendingMessage was generated
\* for the level the store holds right after that escalation: the
\* escalationLevel given to generateInterventionMessage equals level after
\* escalate, also when the session was ended or restarted during the call.
C34_MessageForLevel ==
    [][ /\ ServiceReturn =>
            \E i \in 1..Len(calls) :
                /\ calls' = RemoveAt(calls, i)
                /\ calls[i].escalationLevel = store'.escalationLevel
        /\ (checkEscalation /\ store'.escalationLevel > store.escalationLevel) =>
            store'.pendingMessage.pool = store'.escalationLevel ]_vars

\* C35: in every reachable state a present pendingMessage implies level >=
\* 1: an escalation writes the message and the level in one step, and the
\* reset, endSession and startSession, which set level 0, clear the message.
C35_MessageImpliesLevel ==
    /\ store.pendingMessage # NoMessage => store.escalationLevel >= 1
    /\ resetEscalation(store).pendingMessage = NoMessage
    /\ endSession(store).pendingMessage = NoMessage
    /\ startSession(store, now).pendingMessage = NoMessage

\* the first escalation of a second session has stored its fallback message
C35_Witness ==
    /\ session = 2
    /\ store.isSessionActive
    /\ ~genAI
    /\ store.escalationLevel = 1
    /\ store.pendingMessage # NoMessage
    /\ store.pendingMessage.pool = 1
    /\ store.lastEscalationTime = now

\* C36: in every reachable state of an active session lastEscalationTime
\* is present exactly when level >= 1.
C36_EscalationTimeIffLevel ==
    store.isSessionActive =>
        (store.lastEscalationTime # Null <=> store.escalationLevel >= 1)

\* an active session back at level 0 with no escalation time, after level 3
\* was reached at 30 s of the only distraction
C36_Witness ==
    /\ store.isSessionActive
    /\ store.escalationLevel = 0
    /\ store.lastEscalationTime = Null
    /\ store.lastInterventionTime = Epoch + LEVEL_1_DELAY + LEVEL_2_DELAY + LEVEL_3_DELAY
    /\ store.sessionStats.distractionCount = 1

\* C37: a poll taken while the classifier state is Idle or Unknown changes
\* nothing in the escalation state: level, the timers, the message, the
\* lock and the outstanding calls are as before, so the poll neither
\* escalates nor resets.
C37_IdlePollNoOp ==
    [][ (checkEscalation /\ store.focusState \in {"idle", "unknown"}) =>
            /\ store' = store
            /\ calls' = calls
            /\ isGenerating' = isGenerating ]_vars

\* Idle at level 1 in an episode whose start is kept, the poll of this
\* instant taken: level 2 has been due for a poll's length or more and was
\* not entered
C37_Witness ==
    /\ store.isSessionActive
    /\ ~isGenerating
    /\ ~pollDue
    /\ store.focusState = "idle"
    /\ store.escalationLevel = 1
    /\ Truthy(store.distractionStartTime)
    /\ now - store.lastEscalationTime >= LEVEL_2_DELAY + Step

\* C38: while a message-generation call is in flight a poll changes
\* nothing: no escalation starts and the sustained-focus reset is not
\* evaluated; verdicts go on updating the state during the call, and the
\* first poll taken with the lock released in which the reset is due
\* performs it.
C38_PollDuringCallNoOp ==
    [][ /\ (checkEscalation /\ isGenerating) =>
            /\ store' = store
            /\ calls' = calls
            /\ isGenerating' = isGenerating
        /\ (isGenerating /\ verdicts' = verdicts + 1) =>
            \E st \in FocusStates, r \in Reasons :
                store' = updateFocusState(store, st, r, now)
        /\ ( /\ checkEscalation
             /\ ~isGenerating
             /\ store.isSessionActive
             /\ store.focusState = "focused"
             /\ Truthy(store.focusedSinceReset)
             /\ now - store.focusedSinceReset >= RESET_FOCUS_TIME
             /\ store.escalationLevel > 0 ) =>
            store' = resetEscalation(store) ]_vars

\* a call in flight at level 1 or more, the state Focused for 30 s by a
\* verdict that arrived during the call, and the poll of this instant taken:
\* the reset is due and has not happened
C38_Witness ==
    /\ store.isSessionActive
    /\ isGenerating
    /\ Len(calls) = 1
    /\ ~pollDue
    /\ store.focusState = "focused"
    /\ store.escalationLevel >= 1
    /\ Truthy(store.focusedSinceReset)
    /\ now - store.focusedSinceReset >= RESET_FOCUS_TIME
    /\ store.focusedSinceReset > store.lastEscalationTime

\* C39: distractionCount is the number of verdicts since the last
\* startSession that changed the state from non-Distracted to Distracted:
\* startSession sets it to 0, such a verdict adds 1 (also when the state left
\* Distracted for Idle in between), and no other step changes it, so it
\* never decreases within a session.
C39_CountsEntries ==
    [][ LET count == store.sessionStats.distractionCount
            entered == /\ store.focusState # "distracted"
                       /\ store'.focusState = "distracted"
        IN  /\ startSession(store, now).sessionStats.distractionCount = 0
            /\ IF session' # session
               THEN store'.sessionStats.distractionCount = 0
               ELSE IF verdicts' = verdicts + 1
               THEN store'.sessionStats.distractionCount =
                        count + (IF entered THEN 1 ELSE 0)
               ELSE store'.sessionStats.distractionCount = count ]_vars

\* two distractions counted after three verdicts, the first of positive
\* length: Distracted, a break, Distracted again
C39_Witness ==
    /\ store.isSessionActive
    /\ verdicts = MaxSessionVerdicts
    /\ store.focusState = "distracted"
    /\ store.sessionStats.distractionCount = 2
    /\ store.sessionStats.totalDistractedTime > 0
    /\ ~Truthy(store.focusedSinceReset)

====
